---- MODULE Spec2Model ----
(***************************************************************************)
(* A model of pyranges/range_frame/range_frame.py: the RangeFrame          *)
(* constructor (__new__ / __init__), should_skip_operation,                *)
(* assert_valid_ranges, _mypy_ensure_rangeframe, apply_single and          *)
(* apply_pair.                                                             *)
(*                                                                         *)
(* A table is a record [kind, cols, index, rows]: kind is the Python type  *)
(* of the object ("RangeFrame" or "DataFrame"), cols the set of column     *)
(* labels, index the sequence of row labels and rows the sequence of rows, *)
(* each row a function from cols to cell values.                           *)
(***************************************************************************)
EXTENDS Integers, Sequences, FiniteSets, TLC

\* ---------------------------------------------------------------- bounds
\* Longest collection (number of rows) drawn for self.
MaxRows == 2
\* Longest collection (number of rows) drawn for other.
MaxOtherRows == 1
\* Group keys (values of the Id column) are 1..MaxKey.
MaxKey == 2

\* ------------------------------------------------------------- constants
\* pyranges.names.RANGE_COLS
RANGE_COLS == <<"Start", "End">>

SKIP_IF_EMPTY_BOTH == "both"
SKIP_IF_EMPTY_ANY == "any"
SKIP_IF_EMPTY_LEFT == "left"
SKIP_IF_EMPTY_RIGHT == "right"
\* The member of SKIP_IF_DF_EMPTY_TYPE that is none of the four above.
SKIP_IF_EMPTY_NEVER == "never"

SKIP_IF_DF_EMPTY_TYPE ==
    {SKIP_IF_EMPTY_BOTH, SKIP_IF_EMPTY_ANY, SKIP_IF_EMPTY_LEFT,
     SKIP_IF_EMPTY_RIGHT, SKIP_IF_EMPTY_NEVER}

\* apply_single, line 211
preserve_index_col == "__old_index__"

\* A cell pandas fills in for a column the data does not have.
NaN == "NaN"

\* ---------------------------------------------------------------- tables
\* F(v), with v evaluated once however often F uses it.
Bind(v, F(_)) == CHOOSE r \in {F(x) : x \in {v}} : TRUE

SeqToSet(s) == {s[i] : i \in 1..Len(s)}

RequiredCols == SeqToSet(RANGE_COLS)

Table(kind, cols, index, rows) ==
    [kind |-> kind, cols |-> cols, index |-> index, rows |-> rows]

\* The value of a name that is bound to no table.
NoTable == Table("None", {}, <<>>, <<>>)

\* DataFrame.empty: either axis has length 0.
IsEmpty(df) == Len(df.rows) = 0 \/ df.cols = {}

\* pd.DataFrame(data, columns=cols): the columns of data named in cols, and a
\* NaN column for every other name of cols.
Reindex(df, cols) ==
    Table(df.kind, cols, df.index,
          [i \in 1..Len(df.rows) |->
              [c \in cols |-> IF c \in df.cols THEN df.rows[i][c] ELSE NaN]])

\* The rows of df whose position satisfies keep, in their order.
RECURSIVE SelectPositions(_, _, _)
SelectPositions(df, keep, i) ==
    IF i > Len(df.rows) THEN Table(df.kind, df.cols, <<>>, <<>>)
    ELSE LET rest == SelectPositions(df, keep, i + 1)
         IN  IF i \in keep
             THEN Table(df.kind, df.cols, <<df.index[i]>> \o rest.index,
                        <<df.rows[i]>> \o rest.rows)
             ELSE rest

\* pd.concat(frames) of a non-empty list: the rows and their index labels in
\* list order, over the union of the columns.
RECURSIVE ConcatCols(_)
ConcatCols(frames) ==
    IF frames = <<>> THEN {} ELSE Head(frames).cols \cup ConcatCols(Tail(frames))

RECURSIVE ConcatRows(_, _)
ConcatRows(frames, cols) ==
    IF frames = <<>> THEN Table("DataFrame", cols, <<>>, <<>>)
    ELSE LET h == Reindex(Head(frames), cols)
             rest == ConcatRows(Tail(frames), cols)
         IN  Table("DataFrame", cols, h.index \o rest.index, h.rows \o rest.rows)

Concat(frames) == ConcatRows(frames, ConcatCols(frames))

\* -------------------------------------------------------------- outcomes
\* What a call gives back: the value it returns or the exception it raises.
Returned(v) ==
    [status |-> "returned", error |-> "", msg |-> "", detail |-> <<>>, value |-> v]

Raised(error, msg, detail) ==
    [status |-> "raised", error |-> error, msg |-> msg, detail |-> detail,
     value |-> NoTable]

NoOutcome ==
    [status |-> "none", error |-> "", msg |-> "", detail |-> <<>>, value |-> NoTable]

\* ----------------------------------------------------------- constructor
\* Keyword arguments of the constructor: keys is the set of keywords given.
Kwargs(keys, data, columns) == [keys |-> keys, data |-> data, columns |-> columns]

NoKwargs == Kwargs({}, NoTable, {})

\* pd.DataFrame(*args, **kwargs) for at most one of positional and keyword data.
DataFrame(kind, args, kwargs) ==
    LET data == IF Len(args) > 0 THEN args[1]
                ELSE IF "data" \in kwargs.keys THEN kwargs.data
                ELSE NoTable
        d == Table(kind, data.cols, data.index, data.rows)
    IN  IF "columns" \in kwargs.keys THEN Reindex(d, kwargs.columns) ELSE d

\* A __new__ without the plain-table path: every call allocates an instance.
RangeFrame_new_always(args, kwargs) == [instance |-> TRUE, df |-> NoTable]

\* RangeFrame.__new__: instance says whether an object of the class is
\* allocated (so that __init__ runs on it); otherwise df is returned as is.
RangeFrame_new(args, kwargs) ==
    IF args = <<>> THEN [instance |-> TRUE, df |-> NoTable]
    ELSE IF kwargs.keys = {} THEN [instance |-> TRUE, df |-> NoTable]
    ELSE LET df == DataFrame("DataFrame",
                             <<IF "data" \in kwargs.keys THEN kwargs.data ELSE args[1]>>,
                             NoKwargs)
             missing_any_required_columns == ~(RequiredCols \subseteq df.cols)
         IN  IF missing_any_required_columns
             THEN [instance |-> FALSE, df |-> df]
             ELSE [instance |-> TRUE, df |-> NoTable]

\* RangeFrame.__init__
RangeFrame_init(args, kwargs) ==
    Bind(DataFrame("RangeFrame", args, kwargs), LAMBDA this :
    Bind(SelectSeq(RANGE_COLS, LAMBDA c : c \notin this.cols), LAMBDA missing_columns :
        IF missing_columns # <<>>
        THEN Raised("ValueError", "Missing required columns", missing_columns)
        ELSE Returned(this)))

\* The expression RangeFrame(*args, **kwargs): __new__, then __init__ when
\* __new__ returned an instance of the class.
RangeFrame(args, kwargs) ==
    Bind(RangeFrame_new(args, kwargs), LAMBDA made :
        IF made.instance THEN RangeFrame_init(args, kwargs) ELSE Returned(made.df))

mypy_ensure_rangeframe(r) ==
    Bind(RangeFrame(<<r>>, NoKwargs), LAMBDA result :
        IF result.status = "raised" THEN result
        ELSE IF result.value.kind # "RangeFrame"
             THEN Raised("TypeError", "Expected RangeFrame", <<>>)
             ELSE result)

\* ------------------------------------------------------------- validation
\* The validity checker: the positions of the rows with a negative Start.
reasons_why_frame_is_invalid(df) ==
    SelectSeq([i \in 1..Len(df.rows) |-> i],
              LAMBDA i : "Start" \in df.cols /\ df.rows[i]["Start"] < 0)

\* An operation function is known by a label; the anonymous ones are the
\* labels that are lambda source texts.
Lambdas == {"lambda x, y: x", "lambda x: x"}

function_name(function) == IF function \in Lambdas THEN "<lambda>" ELSE function

\* inspect.getsource(function).strip() of an anonymous function: the source
\* line that holds the lambda.
getsource(function) ==
    IF function = "lambda x, y: x" THEN "r.apply_pair(r2, lambda x, y: x, by)"
    ELSE "r.apply_single(lambda x: x, by)"

\* An assert_valid_ranges that validates its first collection only.
assert_valid_ranges_first(function, args) ==
    IF reasons_why_frame_is_invalid(args[1]) # <<>>
    THEN Raised("ValueError", "Cannot perform function on invalid ranges",
                <<IF function_name(function) # "<lambda>" THEN function_name(function)
                  ELSE getsource(function)>>)
    ELSE NoOutcome

\* assert_valid_ranges: the exception it raises, or NoOutcome.
assert_valid_ranges(function, args) ==
    IF \E i \in 1..Len(args) : reasons_why_frame_is_invalid(args[i]) # <<>>
    THEN LET is_not_lambda == function_name(function) # "<lambda>"
             function_repr == IF is_not_lambda THEN function_name(function)
                              ELSE getsource(function)
         IN  Raised("ValueError", "Cannot perform function on invalid ranges",
                    <<function_repr>>)
    ELSE NoOutcome

\* ------------------------------------------------------------ skip policy
\* A should_skip_operation whose both-empty case forgets the policy both.
should_skip_operation_without_both(df, df2, skip_if_empty) ==
    IF IsEmpty(df) /\ IsEmpty(df2)
    THEN skip_if_empty \in {SKIP_IF_EMPTY_ANY, SKIP_IF_EMPTY_LEFT, SKIP_IF_EMPTY_RIGHT}
    ELSE IF IsEmpty(df)
    THEN skip_if_empty \in {SKIP_IF_EMPTY_LEFT, SKIP_IF_EMPTY_ANY}
    ELSE IF IsEmpty(df2)
    THEN skip_if_empty \in {SKIP_IF_EMPTY_RIGHT, SKIP_IF_EMPTY_ANY}
    ELSE FALSE

\* A should_skip_operation whose right-empty case also skips under the policy
\* left.
should_skip_operation_left_on_right(df, df2, skip_if_empty) ==
    IF IsEmpty(df) /\ IsEmpty(df2)
    THEN skip_if_empty \in {SKIP_IF_EMPTY_BOTH, SKIP_IF_EMPTY_ANY,
                            SKIP_IF_EMPTY_LEFT, SKIP_IF_EMPTY_RIGHT}
    ELSE IF IsEmpty(df)
    THEN skip_if_empty \in {SKIP_IF_EMPTY_LEFT, SKIP_IF_EMPTY_ANY}
    ELSE IF IsEmpty(df2)
    THEN skip_if_empty \in {SKIP_IF_EMPTY_RIGHT, SKIP_IF_EMPTY_ANY, SKIP_IF_EMPTY_LEFT}
    ELSE FALSE

should_skip_operation(df, df2, skip_if_empty) ==
    IF IsEmpty(df) /\ IsEmpty(df2)
    THEN skip_if_empty \in {SKIP_IF_EMPTY_BOTH, SKIP_IF_EMPTY_ANY,
                            SKIP_IF_EMPTY_LEFT, SKIP_IF_EMPTY_RIGHT}
    ELSE IF IsEmpty(df)
    THEN skip_if_empty \in {SKIP_IF_EMPTY_LEFT, SKIP_IF_EMPTY_ANY}
    ELSE IF IsEmpty(df2)
    THEN skip_if_empty \in {SKIP_IF_EMPTY_RIGHT, SKIP_IF_EMPTY_ANY}
    ELSE FALSE

\* --------------------------------------------------------------- grouping
\* A value of the `by` argument: None, a string, or a list of strings (val
\* holds the string as a one-element list).
ByNone == [type |-> "None", val |-> <<>>]
ByStr(name) == [type |-> "str", val |-> <<name>>]
ByList(names) == [type |-> "list", val |-> names]

\* `by is None`
IsNone(by) == by.type = "None"

\* `not by`: None, the empty string and the empty list are falsy.
IsFalsy(by) ==
    by.type = "None" \/ (by.type = "list" /\ by.val = <<>>)
        \/ (by.type = "str" /\ by.val = <<"">>)

by_to_list(by) == by.val

\* The key of row i of df under the grouping columns by.
KeyOf(df, by, i) == [j \in 1..Len(by) |-> df.rows[i][by[j]]]

\* Lexicographic order of two keys of the same length.
RECURSIVE KeyLess(_, _)
KeyLess(a, b) ==
    IF a = <<>> THEN FALSE
    ELSE Head(a) < Head(b) \/ (Head(a) = Head(b) /\ KeyLess(Tail(a), Tail(b)))

\* A groupby that hands out its keys in descending order.
RECURSIVE SortKeysDescending(_)
SortKeysDescending(keys) ==
    IF keys = {} THEN <<>>
    ELSE LET greatest == CHOOSE k \in keys : \A o \in keys \ {k} : KeyLess(o, k)
         IN  <<greatest>> \o SortKeysDescending(keys \ {greatest})

\* The keys of a set in ascending order (groupby sorts its keys).
RECURSIVE SortKeys(_)
SortKeys(keys) ==
    IF keys = {} THEN <<>>
    ELSE LET least == CHOOSE k \in keys : \A o \in keys \ {k} : KeyLess(k, o)
         IN  <<least>> \o SortKeys(keys \ {least})

\* df.groupby(by): the keys in iteration order, and the group of a key (the
\* rows with that key, in their order, with their index labels).
GroupKeys(df, by) == SortKeys({KeyOf(df, by, i) : i \in 1..Len(df.rows)})

Group(df, by, key) ==
    SelectPositions(df, {i \in 1..Len(df.rows) : KeyOf(df, by, i) = key}, 1)

\* What groupby raises before any group is formed, or NoOutcome.
GroupbyError(df, by) ==
    IF by = <<>> THEN Raised("ValueError", "No group keys passed!", <<>>)
    ELSE IF \E j \in 1..Len(by) : by[j] \notin df.cols
    THEN Raised("KeyError", "grouping column", <<>>)
    ELSE NoOutcome

\* ---------------------------------------------------- operation functions
\* The operation functions handed to the apply engines, by label.
\*   "lambda x, y: x", "lambda x: x"  return the (left) collection unchanged
\*   "keep_right"                     returns the right collection unchanged
\*   "without_end"                    returns a plain table of the (left)
\*                                    collection without its End column
BinaryOperations == {"lambda x, y: x", "keep_right", "without_end"}
UnaryOperations == {"lambda x: x", "without_end"}

WithoutColumn(df, col) ==
    Table("DataFrame", df.cols \ {col}, df.index,
          [i \in 1..Len(df.rows) |-> [c \in df.cols \ {col} |-> df.rows[i][c]]])

\* function(x, y, **kwargs) and function(x, **kwargs)
CallBinary(function, x, y) ==
    CASE function = "lambda x, y: x" -> x
      [] function = "keep_right" -> y
      [] function = "without_end" -> WithoutColumn(x, "End")

CallUnary(function, x) ==
    CASE function = "lambda x: x" -> x
      [] function = "without_end" -> WithoutColumn(x, "End")

\* One invocation of the operation function, as the call log records it.
Invocation(x, y) == [x |-> x, y |-> y]

\* One evaluation of should_skip_operation, as the skip log records it.
SkipCheck(df, df2, skip_if_empty) ==
    [left_empty |-> IsEmpty(df), right_empty |-> IsEmpty(df2),
     skip_if_empty |-> skip_if_empty,
     skip |-> should_skip_operation(df, df2, skip_if_empty)]

\* What a call of an apply engine does: its outcome, the invocations of the
\* operation function, the evaluations of the skip policy, and the receiver
\* object as the call leaves it.
Effect(outcome, calls, skips, this) ==
    [outcome |-> outcome, calls |-> calls, skips |-> skips, this |-> this]

\* ------------------------------------------------------------- apply_pair
\* An empty collection with the required columns only.
EmptyRequiredOnly(other) == RangeFrame(<<>>, Kwargs({"columns"}, NoTable, RequiredCols))

\* RangeFrame(columns=other.columns), line 272
EmptyLike(other) == RangeFrame(<<>>, Kwargs({"columns"}, NoTable, other.cols))

\* others.get(key, empty), line 276
OthersGet(other, by, key, empty) ==
    IF key \in SeqToSet(GroupKeys(other, by)) THEN Group(other, by, key) ELSE empty

\* The loop of lines 275-280 over the remaining keys of self.groupby(by). acc
\* holds the results list, the invocations and skip evaluations so far, and
\* the exception that ended the loop, if one did.
RECURSIVE PairLoop(_, _, _, _, _, _, _, _)
PairLoop(this, other, function, by, skip_if_empty, empty, keys, acc) ==
    IF keys = <<>> THEN acc
    ELSE
    Bind(Group(this, by, Head(keys)), LAMBDA df :
    Bind(OthersGet(other, by, Head(keys), empty), LAMBDA odf :
    Bind(Append(acc.skips, SkipCheck(df, odf, skip_if_empty)), LAMBDA skips :
        IF should_skip_operation(df, odf, skip_if_empty)
        THEN PairLoop(this, other, function, by, skip_if_empty, empty, Tail(keys),
                      [acc EXCEPT !.skips = skips])
        ELSE
        Bind(mypy_ensure_rangeframe(df), LAMBDA x :
        Bind(mypy_ensure_rangeframe(odf), LAMBDA y :
            IF x.status = "raised" THEN [acc EXCEPT !.skips = skips, !.raised = x]
            ELSE IF y.status = "raised" THEN [acc EXCEPT !.skips = skips, !.raised = y]
            ELSE PairLoop(this, other, function, by, skip_if_empty, empty, Tail(keys),
                          [acc EXCEPT
                             !.skips = skips,
                             !.calls = Append(@, Invocation(x.value, y.value)),
                             !.results = Append(@, CallBinary(function, x.value,
                                                              y.value))]))))))

\* pd.concat(results), line 282
PdConcat(results) ==
    IF results = <<>> THEN Raised("ValueError", "No objects to concatenate", <<>>)
    ELSE Returned(Concat(results))

\* Lines 270-282.
GroupedPair(this, other, function, bylist, skip_if_empty) ==
    Bind(EmptyLike(other), LAMBDA empty :
    Bind(GroupbyError(other, bylist), LAMBDA noothers :
    Bind(GroupbyError(this, bylist), LAMBDA nogroups :
        IF empty.status = "raised" THEN Effect(empty, <<>>, <<>>, this)
        ELSE IF noothers.status = "raised" THEN Effect(noothers, <<>>, <<>>, this)
        ELSE IF nogroups.status = "raised" THEN Effect(nogroups, <<>>, <<>>, this)
        ELSE
        Bind(PairLoop(this, other, function, bylist, skip_if_empty, empty.value,
                      GroupKeys(this, bylist),
                      [results |-> <<>>, calls |-> <<>>, skips |-> <<>>,
                       raised |-> NoOutcome]), LAMBDA done :
        Bind(PdConcat(done.results), LAMBDA joined :
            IF done.raised.status = "raised"
            THEN Effect(done.raised, done.calls, done.skips, this)
            ELSE IF joined.status = "raised"
            THEN Effect(joined, done.calls, done.skips, this)
            ELSE Effect(mypy_ensure_rangeframe(joined.value), done.calls, done.skips,
                        this))))))

\* An apply_pair that applies the skip policy to the whole collections when
\* `by` is None.
apply_pair_skipping_whole(this, other, function, by, skip_if_empty) ==
    Bind(assert_valid_ranges(function, <<this, other>>), LAMBDA invalid :
        IF invalid.status = "raised" THEN Effect(invalid, <<>>, <<>>, this)
        ELSE IF IsNone(by)
        THEN IF should_skip_operation(this, other, skip_if_empty)
             THEN Effect(EmptyLike(other), <<>>, <<SkipCheck(this, other, skip_if_empty)>>,
                         this)
             ELSE Effect(mypy_ensure_rangeframe(CallBinary(function, this, other)),
                         <<Invocation(this, other)>>,
                         <<SkipCheck(this, other, skip_if_empty)>>, this)
        ELSE GroupedPair(this, other, function, by_to_list(by), skip_if_empty))

apply_pair(this, other, function, by, skip_if_empty) ==
    Bind(assert_valid_ranges(function, <<this, other>>), LAMBDA invalid :
        IF invalid.status = "raised" THEN Effect(invalid, <<>>, <<>>, this)
        ELSE IF IsNone(by)
        THEN Effect(mypy_ensure_rangeframe(CallBinary(function, this, other)),
                    <<Invocation(this, other)>>, <<>>, this)
        ELSE GroupedPair(this, other, function, by_to_list(by), skip_if_empty))

\* ----------------------------------------------------------- apply_single
\* df[col] = df.index, line 213 (in place: the object itself changes)
SetColumnToIndex(df, col) ==
    Table(df.kind, df.cols \cup {col}, df.index,
          [i \in 1..Len(df.rows) |->
              [c \in df.cols \cup {col} |->
                  IF c = col THEN df.index[i] ELSE df.rows[i][c]]])

\* .reset_index(drop=True)
ResetIndex(df) ==
    Table(df.kind, df.cols, [i \in 1..Len(df.rows) |-> i - 1], df.rows)

\* .set_index(col), line 215
SetIndex(df, col) ==
    IF col \notin df.cols THEN Raised("KeyError", "index column", <<col>>)
    ELSE Returned(Table(df.kind, df.cols \ {col},
                        [i \in 1..Len(df.rows) |-> df.rows[i][col]],
                        [i \in 1..Len(df.rows) |->
                            [c \in df.cols \ {col} |-> df.rows[i][c]]]))

\* RangeFrame.drop(col, axis="columns"), lines 300-301
drop(this, col) ==
    RangeFrame(<<Table("DataFrame", this.cols \ {col}, this.index,
                       [i \in 1..Len(this.rows) |->
                           [c \in this.cols \ {col} |-> this.rows[i][c]]])>>,
               NoKwargs)

\* The groups of df.groupby(by), in key order, each handed to function.
GroupCalls(df, by) ==
    Bind(GroupKeys(df, by), LAMBDA keys :
        [i \in 1..Len(keys) |-> Invocation(Group(df, by, keys[i]), NoTable)])

\* df.groupby(by).apply(function, by=by, **kwargs).reset_index(drop=True): the
\* outputs of the groups in key order; for no group an empty table with the
\* columns of df.
GroupApply(df, function, by) ==
    Bind(GroupbyError(df, by), LAMBDA error :
        IF error.status = "raised" THEN [outcome |-> error, calls |-> <<>>]
        ELSE
        Bind(GroupCalls(df, by), LAMBDA calls :
            IF calls = <<>>
            THEN [outcome |-> Returned(Table("DataFrame", df.cols, <<>>, <<>>)),
                  calls |-> calls]
            ELSE [outcome |->
                      Returned(ResetIndex(Concat(
                          [i \in 1..Len(calls) |-> CallUnary(function, calls[i].x)]))),
                  calls |-> calls]))

\* Lines 211-221.
PreservingSingle(this, function, bylist) ==
    Bind(SetColumnToIndex(this, preserve_index_col), LAMBDA marked :
    Bind(GroupApply(marked, function, bylist), LAMBDA applied :
    Bind(IF applied.outcome.status = "raised" THEN applied.outcome
         ELSE SetIndex(applied.outcome.value, preserve_index_col), LAMBDA result :
    \* line 220 binds the local name self to a new object
    Bind(drop(marked, preserve_index_col), LAMBDA dropped :
        IF result.status = "raised" THEN Effect(result, applied.calls, <<>>, marked)
        ELSE IF dropped.status = "raised"
        THEN Effect(dropped, applied.calls, <<>>, marked)
        ELSE Effect(mypy_ensure_rangeframe(result.value), applied.calls, <<>>,
                    marked)))))

apply_single(this, function, by, preserve_index) ==
    Bind(assert_valid_ranges(function, <<this>>), LAMBDA invalid :
        IF invalid.status = "raised" THEN Effect(invalid, <<>>, <<>>, this)
        ELSE IF IsFalsy(by)
        THEN Effect(mypy_ensure_rangeframe(CallUnary(function, this)),
                    <<Invocation(this, NoTable)>>, <<>>, this)
        ELSE IF ~preserve_index
        THEN Bind(GroupApply(this, function, by_to_list(by)), LAMBDA applied :
                 IF applied.outcome.status = "raised"
                 THEN Effect(applied.outcome, applied.calls, <<>>, this)
                 ELSE Effect(mypy_ensure_rangeframe(applied.outcome.value),
                             applied.calls, <<>>, this))
        ELSE PreservingSingle(this, function, by_to_list(by)))

\* ----------------------------------------------------------------- state
VARIABLES
    self,      \* the caller's collection, the receiver of the calls
    other,     \* the caller's second collection
    op,        \* the last call made and its arguments
    outcome,   \* what the last call returned or raised
    calls,     \* the invocations of the operation function during the last call
    skips      \* the evaluations of should_skip_operation during the last call

vars == <<self, other, op, outcome, calls, skips>>

Op(name, function, by, skip_if_empty, preserve_index, args, kwargs) ==
    [name |-> name, function |-> function, by |-> by,
     skip_if_empty |-> skip_if_empty, preserve_index |-> preserve_index,
     args |-> args, kwargs |-> kwargs,
     \* the receiver and the second collection as the call found them
     this |-> self, other |-> other]

NoOp == [name |-> "", function |-> "", by |-> ByNone, skip_if_empty |-> "",
         preserve_index |-> FALSE, args |-> <<>>, kwargs |-> NoKwargs,
         this |-> NoTable, other |-> NoTable]

\* ------------------------------------------------------------------ inputs
Keys == 1..MaxKey

\* Rows of a collection: a valid interval per key, and one with a negative
\* Start, which the validity checker reports.
BaseRows ==
    {[Start |-> 1, End |-> 2, Id |-> k] : k \in Keys}
        \cup {[Start |-> 0 - 1, End |-> 2, Id |-> 1]}

RowSeqs(longest) == UNION {[1..n -> BaseRows] : n \in 0..longest}

BaseCols == {"Start", "End", "Id"}

\* pr.RangeFrame({...}): a collection with the default index 0..n-1.
Collection(cols, rows) ==
    Table("RangeFrame", cols, [i \in 1..Len(rows) |-> i - 1],
          [i \in 1..Len(rows) |->
              [c \in cols |-> IF c \in BaseCols THEN rows[i][c] ELSE 0]])

Collections(cols, longest) == {Collection(cols, rows) : rows \in RowSeqs(longest)}

ByValues == {ByNone, ByList(<<>>), ByStr("Id"), ByList(<<"Id">>)}

\* ------------------------------------------------------------------ actions
Init ==
    /\ self \in Collections(BaseCols, MaxRows)
    /\ other \in Collections(BaseCols \cup {"Score"}, MaxOtherRows)
    /\ op = NoOp
    /\ outcome = NoOutcome
    /\ calls = <<>>
    /\ skips = <<>>

Finish(effect) ==
    /\ self' = effect.this
    /\ outcome' = effect.outcome
    /\ calls' = effect.calls
    /\ skips' = effect.skips
    /\ UNCHANGED other

\* Between calls the caller holds its two collections and no result.
Idle == op = NoOp

\* self.apply_pair(other, function, by, skip_if_empty)
ApplyPair ==
    \E function \in BinaryOperations, by \in ByValues,
       skip_if_empty \in SKIP_IF_DF_EMPTY_TYPE :
        /\ Idle
        /\ op' = Op("apply_pair", function, by, skip_if_empty, FALSE, <<>>, NoKwargs)
        /\ \E effect \in {apply_pair(self, other, function, by, skip_if_empty)} :
               Finish(effect)

\* self.apply_single(function, by, preserve_index=preserve_index)
ApplySingle ==
    \E function \in UnaryOperations, by \in ByValues, preserve_index \in BOOLEAN :
        /\ Idle
        /\ op' = Op("apply_single", function, by, "", preserve_index, <<>>, NoKwargs)
        /\ \E effect \in {apply_single(self, function, by, preserve_index)} :
               Finish(effect)

\* should_skip_operation(self, df2=other, skip_if_empty=skip_if_empty)
ShouldSkip ==
    \E skip_if_empty \in SKIP_IF_DF_EMPTY_TYPE :
        /\ Idle
        /\ op' = Op("should_skip_operation", "", ByNone, skip_if_empty, FALSE, <<>>,
                    NoKwargs)
        /\ Finish(Effect(NoOutcome, <<>>, <<SkipCheck(self, other, skip_if_empty)>>,
                         self))

\* Tabular data for the constructor: the columns cols of self as a plain table.
Data(cols) == Reindex(Table("DataFrame", self.cols, self.index, self.rows), cols)

DataChoices == {Data(BaseCols), Data({"Start", "Id"}), Data({"End", "Id"})}

ColumnsChoices == {BaseCols, {"Start", "Id"}}

\* The argument lists of the constructor: no argument, positional data only,
\* keywords only (data, columns or both), positional data with a keyword.
ConstructorCalls ==
    {[args |-> <<>>, kwargs |-> NoKwargs]}
        \cup {[args |-> <<d>>, kwargs |-> NoKwargs] : d \in DataChoices}
        \cup {[args |-> <<>>, kwargs |-> Kwargs({"data"}, d, {})] : d \in DataChoices}
        \cup {[args |-> <<>>, kwargs |-> Kwargs({"columns"}, NoTable, c)] :
                 c \in ColumnsChoices}
        \cup {[args |-> <<>>, kwargs |-> Kwargs({"data", "columns"}, d, c)] :
                 d \in DataChoices, c \in ColumnsChoices}
        \cup {[args |-> <<d>>, kwargs |-> Kwargs({"columns"}, NoTable, c)] :
                 d \in DataChoices, c \in ColumnsChoices}

\* RangeFrame(*args, **kwargs)
Construct ==
    \E call \in ConstructorCalls :
        /\ Idle
        /\ op' = Op("RangeFrame", "", ByNone, "", FALSE, call.args, call.kwargs)
        /\ \E made \in {RangeFrame(call.args, call.kwargs)} :
               Finish(Effect(made, <<>>, <<>>, self))

\* The call is over: the caller keeps its collections and lets go of the result.
Return ==
    /\ ~Idle
    /\ op' = NoOp
    /\ outcome' = NoOutcome
    /\ calls' = <<>>
    /\ skips' = <<>>
    /\ UNCHANGED <<self, other>>

Next == ApplyPair \/ ApplySingle \/ ShouldSkip \/ Construct \/ Return

Spec == Init /\ [][Next]_vars

\* ================================================================= claims
\* The error kinds of the specification, as the exceptions of the code.
IsMissingColumnsError(o) ==
    o.status = "raised" /\ o.error = "ValueError" /\ o.msg = "Missing required columns"

IsInvalidRangesError(o) ==
    /\ o.status = "raised" /\ o.error = "ValueError"
    /\ o.msg = "Cannot perform function on invalid ranges"

IsTypeConsistencyError(o) == o.status = "raised" /\ o.error = "TypeError"

\* The last call was a grouped apply_pair: `by` names at least one column.
GroupedPairCall == op.name = "apply_pair" /\ op.by.type # "None" /\ op.by.val # <<>>

ValidInput(df) == \A i \in 1..Len(df.rows) : df.rows[i]["Start"] >= 0

\* The rows of df, and their index labels, whose Id is k.
RowsOfKey(df, k) == SelectSeq(df.rows, LAMBDA r : r["Id"] = k)

IndexOfKey(df, k) ==
    LET at == SelectSeq([i \in 1..Len(df.rows) |-> i], LAMBDA i : df.rows[i]["Id"] = k)
    IN  [j \in 1..Len(at) |-> df.index[at[j]]]

HasKey(df, k) == \E i \in 1..Len(df.rows) : df.rows[i]["Id"] = k

\* The skip truth table of the specification, section 4.3.
SkipTable(left_empty, right_empty, policy) ==
    CASE policy = "both" -> left_empty /\ right_empty
      [] policy = "any" -> left_empty \/ right_empty
      [] policy = "left" -> left_empty
      [] policy = "right" -> right_empty
      [] policy = "never" -> FALSE

\* What the group of key k contributes to the result of the last call: the
\* rows and index labels the operation function returns for it, or nothing
\* when the left collection has no such group or the policy skips it.
Contribution(k) ==
    LET left == [rows |-> RowsOfKey(op.this, k), index |-> IndexOfKey(op.this, k)]
        right == [rows |-> RowsOfKey(op.other, k), index |-> IndexOfKey(op.other, k)]
        none == [rows |-> <<>>, index |-> <<>>]
    IN  IF left.rows = <<>> \/ SkipTable(FALSE, right.rows = <<>>, op.skip_if_empty)
        THEN none
        ELSE IF op.function = "keep_right" THEN right ELSE left

RECURSIVE Contributions(_)
Contributions(k) ==
    IF k > MaxKey THEN [rows |-> <<>>, index |-> <<>>]
    ELSE LET rest == Contributions(k + 1)
         IN  [rows |-> Contribution(k).rows \o rest.rows,
              index |-> Contribution(k).index \o rest.index]

\* C1: for a non-empty `by`, the rows apply_pair returns are the outputs of
\* function for the left groups the policy does not skip, each once, in
\* ascending order of the group keys.
C1_GroupOrder ==
    (GroupedPairCall /\ outcome.status = "returned")
        => /\ outcome.value.rows = Contributions(1).rows
           /\ outcome.value.index = Contributions(1).index

\* A grouped call whose left rows come with the larger key first, and both
\* groups reach the result.
C1_Witness ==
    /\ GroupedPairCall /\ outcome.status = "returned"
    /\ Len(op.this.rows) = 2
    /\ op.this.rows[1]["Id"] > op.this.rows[2]["Id"]
    /\ Len(outcome.value.rows) = 2
    /\ Len(calls) = 2

\* C2: should_skip_operation agrees with the truth table of section 4.3 for
\* every policy and every combination of empty and non-empty sides.
C2_SkipTable ==
    \A i \in 1..Len(skips) :
        skips[i].skip
            = SkipTable(skips[i].left_empty, skips[i].right_empty, skips[i].skip_if_empty)

\* The left side alone is empty and the policy skips on an empty left side.
C2_Witness ==
    /\ op.name = "should_skip_operation"
    /\ Len(skips) = 1
    /\ skips[1].left_empty /\ ~skips[1].right_empty
    /\ skips[1].skip_if_empty = "left"
    /\ skips[1].skip

\* C3: an apply engine given an invalid collection raises InvalidRangesError
\* without invoking the operation function, whatever `by` and the skip policy
\* are; given valid collections it does not raise InvalidRangesError.
C3_InvalidRaisesFirst ==
    /\ op.name = "apply_single"
           => IF ValidInput(op.this) THEN ~IsInvalidRangesError(outcome)
              ELSE IsInvalidRangesError(outcome) /\ calls = <<>>
    /\ op.name = "apply_pair"
           => IF ValidInput(op.this) /\ ValidInput(op.other)
              THEN ~IsInvalidRangesError(outcome)
              ELSE IsInvalidRangesError(outcome) /\ calls = <<>>

\* apply_pair on a valid left and an invalid right collection.
C3_Witness ==
    /\ op.name = "apply_pair"
    /\ ValidInput(op.this) /\ ~ValidInput(op.other)
    /\ op.this.rows # <<>>
    /\ IsInvalidRangesError(outcome)
    /\ calls = <<>>

\* C4: with `by` None and valid inputs, apply_pair invokes function once, on
\* the whole collections, never evaluates the skip policy, and returns the
\* function's result as a RangeFrame.
C4_UngroupedPair ==
    (op.name = "apply_pair" /\ op.by = ByNone /\ ValidInput(op.this)
        /\ ValidInput(op.other))
        => /\ calls = <<Invocation(op.this, op.other)>>
           /\ skips = <<>>
           /\ LET result == CallBinary(op.function, op.this, op.other)
              IN  RequiredCols \subseteq result.cols
                      => outcome = Returned(Table("RangeFrame", result.cols,
                                                  result.index, result.rows))

\* by=None on two empty collections under a policy that skips empty sides.
C4_Witness ==
    /\ op.name = "apply_pair" /\ op.by = ByNone
    /\ op.this.rows = <<>> /\ op.other.rows = <<>>
    /\ op.skip_if_empty = "any"
    /\ Len(calls) = 1
    /\ outcome.status = "returned"

\* The left keys of the last call that the right collection has no row for.
LeftOnlyKeys == {k \in Keys : HasKey(op.this, k) /\ ~HasKey(op.other, k)}

\* C5: in grouped apply_pair under never-skip, a left group whose key the
\* right collection lacks is still handed to function, with an empty right
\* collection that has the right collection's columns.
C5_EmptyRightGroup ==
    (GroupedPairCall /\ op.skip_if_empty = "never" /\ ValidInput(op.this)
        /\ ValidInput(op.other))
        => \A k \in LeftOnlyKeys :
               \E i \in 1..Len(calls) :
                   /\ calls[i].x.rows = RowsOfKey(op.this, k)
                   /\ calls[i].y.rows = <<>>
                   /\ calls[i].y.cols = op.other.cols
                   /\ calls[i].y.kind = "RangeFrame"

\* The right collection has a row, but none for a key of the left one.
C5_Witness ==
    /\ GroupedPairCall /\ op.skip_if_empty = "never"
    /\ op.other.rows # <<>>
    /\ LeftOnlyKeys # {}
    /\ \E i \in 1..Len(calls) : calls[i].y.rows = <<>> /\ "Score" \in calls[i].y.cols

\* C6: a grouped apply_pair in which no group produces output returns an empty
\* collection with the right collection's columns instead of raising.
C6_EmptyResult ==
    (GroupedPairCall /\ ValidInput(op.this) /\ ValidInput(op.other) /\ calls = <<>>)
        => /\ outcome.status = "returned"
           /\ outcome.value.rows = <<>>
           /\ outcome.value.cols = op.other.cols

\* The table the constructor's arguments describe, and the required columns
\* it lacks.
Described == DataFrame("DataFrame", op.args, op.kwargs)

Lacking(cols) == SelectSeq(RANGE_COLS, LAMBDA c : c \notin cols)

\* C7: constructing from data that lacks Start or End raises
\* MissingColumnsError naming the missing columns on every construction path,
\* and constructing with both columns succeeds.
C7_MissingColumnsRaise ==
    op.name = "RangeFrame"
        => IF Lacking(Described.cols) # <<>>
           THEN IsMissingColumnsError(outcome) /\ outcome.detail = Lacking(Described.cols)
           ELSE outcome.status = "returned" /\ outcome.value.kind = "RangeFrame"

\* Positional data together with keyword arguments.
BothPath == op.args # <<>> /\ op.kwargs.keys # {}

\* C7 as amended: with positional data alone or keywords alone, construction
\* raises MissingColumnsError naming the missing columns when the table the
\* arguments describe lacks Start or End, and gives a RangeFrame otherwise;
\* with positional data and keywords together, positional data lacking Start
\* or End is returned as a plain table without an error, and other data is
\* treated as on the other paths; no call yields a RangeFrame without both
\* columns.
C7_Amended ==
    /\ outcome.value.kind = "RangeFrame" => RequiredCols \subseteq outcome.value.cols
    /\ op.name = "RangeFrame"
           => IF BothPath /\ Lacking(op.args[1].cols) # <<>>
              THEN outcome = Returned(op.args[1]) /\ outcome.value.kind = "DataFrame"
              ELSE IF Lacking(Described.cols) # <<>>
              THEN /\ IsMissingColumnsError(outcome)
                   /\ outcome.detail = Lacking(Described.cols)
              ELSE /\ outcome.status = "returned"
                   /\ outcome.value.kind = "RangeFrame"
                   /\ outcome.value.cols = Described.cols

\* Positional data without End, given together with a columns keyword.
C7_Witness ==
    /\ op.name = "RangeFrame" /\ BothPath
    /\ "End" \notin op.args[1].cols
    /\ outcome.status = "returned"
    /\ outcome.value.kind = "DataFrame"

\* C8: after apply_single returns from a call with a non-empty `by` and
\* preserve_index set, the caller's collection has the columns it had before.
C8_MarkerNotVisible ==
    (op.name = "apply_single" /\ ~IsFalsy(op.by) /\ op.preserve_index
        /\ outcome.status = "returned")
        => self.cols = op.this.cols

\* C9: when the result an apply engine re-wraps lacks a required column, the
\* error raised is TypeConsistencyError.
C9_TypeConsistency ==
    (op.name \in {"apply_pair", "apply_single"} /\ op.function = "without_end"
        /\ calls # <<>>)
        => IsTypeConsistencyError(outcome)

\* The keys of the last call that only the right collection has.
RightOnlyKeys == {k \in Keys : HasKey(op.other, k) /\ ~HasKey(op.this, k)}

\* The calls and the outcome of the last call, had it been made under policy.
UnderPolicy(policy) ==
    Bind(apply_pair(op.this, op.other, op.function, op.by, policy), LAMBDA effect :
        [calls |-> effect.calls, outcome |-> effect.outcome])

Observed == [calls |-> calls, outcome |-> outcome]

====
